---- MODULE Spec2Model ----
(***************************************************************************)
(* Shenidam (src/shenidam.c): locating a query clip inside a base          *)
(* recording by frequency-domain cross-correlation.                        *)
(*                                                                         *)
(* Numeric conventions of the model.                                       *)
(*  - Samples are exact integers.  normalize() subtracts the mean and      *)
(*    divides by a positive number; the model keeps n*(x - mean), i.e. the *)
(*    centred samples up to a positive factor.  Every later stage is       *)
(*    linear, so the correlation is the code's correlation up to a         *)
(*    positive factor: its maxima, and the ties between them, are the      *)
(*    same.                                                                *)
(*  - A spectrum is represented by the real sequence it is the transform   *)
(*    of (the transform is a bijection); ifft(conj(fft(t)) * fft(b)) is    *)
(*    the circular cross-correlation of t and b.                           *)
(*  - A sample rate is an integer; the ratio base_sample_rate/sample_rate  *)
(*    is kept as the pair of its terms.                                    *)
(***************************************************************************)
EXTENDS Integers, Sequences, FiniteSets, TLC

\* ------------------------------------------------------------------ bounds
MaxVal == 1
MaxLen == 1
MaxRate == 2
MaxSlot == 1
MaxBaseLen == 3
MaxQ == 5
MaxB == 1
MaxCorr == 1
NumCallers == 2

\* ------------------------------------------------------- values and inputs
Values == 0..MaxVal
Buffers == UNION {[1..n -> Values] : n \in 0..MaxLen}
WorkRates == 1..MaxRate
\* Rates a caller passes to shenidam_get_audio_range, and to
\* shenidam_set_base_audio (where a negative rate takes the path of zero).
CallRates == (0 - 1)..MaxRate
BaseRates == 0..MaxRate
ThreadHints == {0, 2}
Formats == {"FORMAT_SINGLE", "FORMAT_SHORT"}
FormatTags == Formats \cup {"FORMAT_UNKNOWN"}
Filters == {<<"cb_zero", "ctx_a">>, <<"cb_scale", "ctx_b">>}

SUCCESS == "SUCCESS"
INVALID_ARGUMENT == "INVALID_ARGUMENT"
ALREADY_SET_BASE_SIGNAL == "ALREADY_SET_BASE_SIGNAL"
BASE_SIGNAL_NOT_SET == "BASE_SIGNAL_NOT_SET"
ALLOCATION_ERROR == "ALLOCATION_ERROR"
NO_RETURN == "NO_RETURN"

\* A pointer to a sample buffer: NULL, or a heap block with its contents.
NullPtr == [null |-> TRUE, mem |-> <<>>]
Ptr(s) == [null |-> FALSE, mem |-> s]

\* Entries of the frequential_filters and frequential_filter_data arrays: a
\* slot holds what was stored in it, the NULL sentinel, or, when it was never
\* written, whatever the allocator left there.
NullCb == "NULL"
GarbageCb == "GARBAGE"
GarbageData == "GARBAGE"

\* --------------------------------------------------------------- arithmetic
RECURSIVE SumSeq(_, _)
SumSeq(s, i) == IF i > Len(s) THEN 0 ELSE s[i] + SumSeq(s, i + 1)

Min(a, b) == IF a < b THEN a ELSE b

\* round(num/den) of <math.h>: halves away from zero (den > 0).
RoundDiv(num, den) ==
    IF num >= 0 THEN (2 * num + den) \div (2 * den)
    ELSE 0 - ((2 * (0 - num) + den) \div (2 * den))

\* ceil(num/den) for num >= 0, den > 0.
CeilDiv(num, den) == (num + den - 1) \div den

\* ------------------------------------------------------- signal preparation
\* (mutant) the mean is not subtracted.
normalize_not_centred(samples) == [i \in 1..Len(samples) |-> Len(samples) * samples[i]]

normalize(samples) ==
    LET n == Len(samples)
        sum == SumSeq(samples, 1)
    IN  [i \in 1..n |-> n * samples[i] - sum]

\* The cast loop of convert_to_samples: every supported tag yields the same
\* float for the small integers of the model.
convert_values(format, samples_in) == [i \in 1..Len(samples_in) |-> samples_in[i]]

\* resample(): src_simple is an external converter.  It is given the ratio
\* num/den and room for num_samples_out frames; modelled as a zero-order hold
\* that fills the room it is given (the identity when the ratio is one).
resample(samples_in, num, den, num_samples_out) ==
    LET n == Len(samples_in)
    IN  IF n = 0 THEN <<>>
        ELSE [i \in 1..num_samples_out |-> samples_in[Min(n, ((i - 1) * den) \div num + 1)]]

resize(samples_in, num_samples_in, num_samples_out) ==
    [i \in 1..num_samples_out |->
        IF i <= Min(num_samples_out, num_samples_in) THEN samples_in[i] ELSE 0]

RECURSIVE common_size_from(_, _)
common_size_from(res, minimal_size) ==
    IF res < minimal_size THEN common_size_from(2 * res, minimal_size) ELSE res

get_common_size(minimal_size) == common_size_from(1, minimal_size)

\* ------------------------------------------------------------ filter chain
\* What a registered callback does to a spectrum.  Callbacks are the
\* caller's code; the two of the model zero every bin, or scale every bin by
\* the context they are handed.
apply_callback(cb, spectrum, data) ==
    IF cb = "cb_zero" THEN [i \in 1..Len(spectrum) |-> 0]
    ELSE [i \in 1..Len(spectrum) |-> (IF data = "ctx_b" THEN 2 ELSE 3) * spectrum[i]]

\* The loop of shenidam_get_audio_range over the sentinel-terminated array:
\* cur and data_p advance together from slot k until *cur is NULL.  Calling
\* a slot that was never written jumps to an arbitrary address.
RECURSIVE run_filters(_, _, _, _, _, _)
run_filters(filters, datas, k, track_f, base_f, calls) ==
    IF filters[k] = NullCb
    THEN [track_f |-> track_f, base_f |-> base_f, calls |-> calls, crashed |-> FALSE]
    ELSE IF filters[k] = GarbageCb
    THEN [track_f |-> track_f, base_f |-> base_f, calls |-> calls, crashed |-> TRUE]
    ELSE LET cb == filters[k]
             data == datas[k]
         IN  run_filters(filters, datas, k + 1,
                 apply_callback(cb, track_f, data),
                 apply_callback(cb, base_f, data),
                 calls \o << <<cb, data, "track_f">>, <<cb, data, "base_f">> >>)

\* ------------------------------------------------------------- correlation
RECURSIVE dot_shift(_, _, _, _)
dot_shift(track, base, k, j) ==
    LET N == Len(track)
    IN  IF j >= N THEN 0
        ELSE track[j + 1] * base[((j + k) % N) + 1] + dot_shift(track, base, k, j + 1)

\* ifft(conj(track_f) * base_f): entry i+1 holds the correlation at lag i.
cross_correlate(track_f, base_f) ==
    [i \in 1..Len(track_f) |-> dot_shift(track_f, base_f, i - 1, 0)]

\* The scan for the maximum: maxv starts below every value, a strictly
\* greater value replaces it.
RECURSIVE peak_scan(_, _, _, _)
peak_scan(convolved, i, maxv, in) ==
    IF i >= Len(convolved) THEN in
    ELSE LET temp == convolved[i + 1]
         IN  IF maxv.neg_inf \/ temp > maxv.v
             THEN peak_scan(convolved, i + 1, [neg_inf |-> FALSE, v |-> temp], i)
             ELSE peak_scan(convolved, i + 1, maxv, in)

\* (mutant) a value equal to the maximum so far replaces it: the last
\* occurrence wins.
RECURSIVE peak_scan_last(_, _, _, _)
peak_scan_last(convolved, i, maxv, in) ==
    IF i >= Len(convolved) THEN in
    ELSE LET temp == convolved[i + 1]
         IN  IF maxv.neg_inf \/ temp >= maxv.v
             THEN peak_scan_last(convolved, i + 1, [neg_inf |-> FALSE, v |-> temp], i)
             ELSE peak_scan_last(convolved, i + 1, maxv, in)

peak_search_last_wins(convolved) ==
    peak_scan_last(convolved, 0, [neg_inf |-> TRUE, v |-> 0], 0)

peak_search(convolved) == peak_scan(convolved, 0, [neg_inf |-> TRUE, v |-> 0], 0)

wraparound(in, common_size, num_samples) ==
    IF in > common_size - (num_samples \div 2) THEN in - common_size ELSE in

\* ------------------------------------------------------------ allocations
\* The allocations a call performs, in program order.  "eh" is made through
\* ehmalloc / fft_ehmalloc (NULL is answered by longjmp(jb)); "raw" is a bare
\* malloc / realloc / fftwf_malloc whose result is used unchecked.  live is
\* the number of buffers the call holds when the allocation is attempted.
Site(kind, live) == [kind |-> kind, live |-> live]

create_sites == << Site("raw", 0), Site("raw", 1) >>

add_filter_sites == << Site("raw", 0), Site("raw", 0) >>

set_base_sites == << Site("eh", 0), Site("eh", 1) >>

fft_sites(live) == << Site("eh", live), Site("raw", live + 1), Site("raw", live + 2) >>

ifft_sites(live) == << Site("eh", live), Site("eh", live + 1), Site("eh", live + 2) >>

get_range_sites(resampled) ==
    << Site("eh", 0) >>
    \o (IF resampled THEN << Site("eh", 1) >> ELSE << >>)
    \o << Site("eh", 1), Site("eh", 1) >>
    \o fft_sites(2) \o fft_sites(2) \o ifft_sites(1)

MaxSites == Len(get_range_sites(TRUE))

\* ------------------------------------------------------------------ session
\* shenidam_t_impl.  base_real_sample_rate and base_num_samples are not
\* written by shenidam_create and not read while base is NULL; they show 0.
NoImpl ==
    [base_sample_rate |-> 0, base_real_sample_rate |-> 0, base |-> NullPtr,
     base_num_samples |-> 0, frequential_filters |-> << >>,
     frequential_filter_data |-> << >>, num_threads |-> 0]

NoOut == [in_point |-> 0, length |-> 0, wrote |-> {}]

\* What a call leaves behind: its return code (NO_RETURN when it never
\* returns), the session, how the process goes on, the caller's result
\* variables, the buffers it allocated that are still allocated and that the
\* session does not own, whether one of its allocations failed, how many
\* allocations it attempted, the callbacks it invoked, the correlation it
\* searched and the lag it selected there.
Outcome(ret, impl, status, out, live, failed, allocs) ==
    [ret |-> ret, impl |-> impl, status |-> status, out |-> out, live |-> live,
     failed |-> failed, allocs |-> allocs, calls |-> << >>, convolved |-> << >>,
     in |-> 0]

\* The allocation numbered failAt fails.
alloc_failure(sites, failAt, impl, out) ==
    IF sites[failAt].kind = "eh"
    THEN Outcome(ALLOCATION_ERROR, impl, "live", out, sites[failAt].live, TRUE, failAt)
    ELSE Outcome(NO_RETURN, impl, "crashed", out, sites[failAt].live, TRUE, failAt)

\* ----------------------------------------------------------------- handlers
\* shenidam_create.  Both blocks come from bare malloc and are written
\* through at once, so a failed allocation is a store through NULL.
shenidam_create(base_sample_rate, num_threads, failAt) ==
    IF failAt \in 1..Len(create_sites)
    THEN {alloc_failure(create_sites, failAt, NoImpl, NoOut)}
    ELSE {Outcome(SUCCESS,
            [base_sample_rate |-> base_sample_rate, base_real_sample_rate |-> 0,
             base |-> NullPtr, base_num_samples |-> 0,
             frequential_filters |-> << NullCb >>,
             frequential_filter_data |-> << >>,
             num_threads |-> IF num_threads <= 1 THEN 1 ELSE num_threads],
            "live", NoOut, 0, FALSE, 2)}

\* The two arrays after realloc to n slots (plus the two stored after them):
\* the first n slots keep what the old block held, or are unwritten memory.
grown(old, n, garbage, tail) ==
    [i \in 1..(n + Len(tail)) |->
        IF i <= n THEN (IF i <= Len(old) THEN old[i] ELSE garbage) ELSE tail[i - n]]

\* shenidam_add_frequential_filter.  The counting loop tests the cursor
\* (cur++ != NULL), not the entry it points at: it never sees the sentinel and
\* walks off the array, which is undefined.  A build either never leaves the
\* loop, or leaves it with a count n that has nothing to do with the number of
\* registered filters; the stores at n and n+1 then land in a block of
\* sizeof(entry)*n+2 bytes, past its end, which can bring the process down.
shenidam_add_frequential_filter(impl, callback, data, failAt, out) ==
    IF callback = NullCb
    THEN {Outcome(INVALID_ARGUMENT, impl, "live", out, 0, FALSE, 0)}
    ELSE {Outcome(NO_RETURN, impl, "hung", out, 0, FALSE, 0)}
         \cup
         (IF failAt \in 1..Len(add_filter_sites)
          THEN {alloc_failure(add_filter_sites, failAt, impl, out)}
          ELSE {Outcome(NO_RETURN, impl, "crashed", out, 0, FALSE, 2)}
               \cup
               {Outcome(SUCCESS,
                    [impl EXCEPT
                       !.frequential_filters =
                           grown(impl.frequential_filters, n, GarbageCb, << callback, NullCb >>),
                       !.frequential_filter_data =
                           grown(impl.frequential_filter_data, n, GarbageData, << data >>)],
                    "live", out, 0, FALSE, 2) : n \in 0..MaxSlot})

\* shenidam_set_base_audio past its guard.  The buffer of
\* convert_to_samples is allocated before the format is looked at.
\* sample_rate is not validated: with sample_rate <= 0 the frame count handed
\* to resample() is the conversion of an infinite, NaN or negative double to
\* size_t, which is undefined; the allocation of that many frames fails or
\* not, and when it does not, the converter rejects the ratio and leaves
\* output_frames_gen unset, so the committed count and contents are whatever
\* was there.
set_base_commit(impl, format, samples, sample_rate, failAt, out) ==
    IF failAt = 1
    THEN {alloc_failure(set_base_sites, 1, impl, out)}
    ELSE IF format \notin Formats
    THEN {Outcome(INVALID_ARGUMENT, impl, "live", out, 0, FALSE, 1)}
    ELSE IF failAt = 2
    THEN {alloc_failure(set_base_sites, 2, impl, out)}
    ELSE IF sample_rate <= 0
    THEN {alloc_failure(set_base_sites, 2, impl, out)}
         \cup
         {Outcome(SUCCESS,
              [impl EXCEPT !.base = Ptr(g), !.base_num_samples = Len(g),
                           !.base_real_sample_rate = sample_rate],
              "live", out, 1, FALSE, 2) : g \in Buffers}
    ELSE LET num_samples == Len(samples)
             base == normalize(convert_values(format, samples))
             num_samples_new == RoundDiv(num_samples * impl.base_sample_rate, sample_rate)
             temp == resample(base, impl.base_sample_rate, sample_rate, num_samples_new)
         IN  {Outcome(SUCCESS,
                  [impl EXCEPT !.base = Ptr(temp), !.base_num_samples = Len(temp),
                               !.base_real_sample_rate = sample_rate],
                  "live", out, 1, FALSE, 2)}

\* (mutant) the guard on an already committed base is missing.
shenidam_set_base_audio_unguarded(impl, format, samples, sample_rate, failAt, out) ==
    set_base_commit(impl, format, samples, sample_rate, failAt, out)

shenidam_set_base_audio(impl, format, samples, sample_rate, failAt, out) ==
    IF ~impl.base.null
    THEN {Outcome(ALREADY_SET_BASE_SIGNAL, impl, "live", out, 0, FALSE, 0)}
    ELSE set_base_commit(impl, format, samples, sample_rate, failAt, out)

\* shenidam_get_audio_range, from the conversion of the query on.
get_range_pipeline(impl, input_format, samples, sample_rate, failAt, out) ==
    LET resampled == impl.base_sample_rate # sample_rate
        sites == get_range_sites(resampled)
        early == IF resampled THEN 2 ELSE 1
        converted == normalize(convert_values(input_format, samples))
        track == IF resampled
                 THEN resample(converted, impl.base_sample_rate, sample_rate,
                               CeilDiv(Len(samples) * impl.base_sample_rate, sample_rate))
                 ELSE converted
        num_samples == Len(track)
        out418 == [out EXCEPT !.length = num_samples, !.wrote = {"length"}]
        common_size == get_common_size(num_samples + impl.base_num_samples)
        track_d == resize(track, num_samples, common_size)
        base_d == resize(impl.base.mem, impl.base_num_samples, common_size)
        filtered == run_filters(impl.frequential_filters, impl.frequential_filter_data,
                                1, track_d, base_d, << >>)
        convolved == cross_correlate(filtered.track_f, filtered.base_f)
        in == wraparound(peak_search(convolved), common_size, num_samples)
        result == [in_point |-> RoundDiv(in * impl.base_real_sample_rate, impl.base_sample_rate),
                   length |-> RoundDiv(num_samples * impl.base_real_sample_rate,
                                       impl.base_sample_rate),
                   wrote |-> {"in_point", "length"}]
    IN  IF failAt \in 1..Len(sites)
        THEN {alloc_failure(sites, failAt, impl, IF failAt <= early THEN out ELSE out418)}
        ELSE IF filtered.crashed
        THEN {[Outcome(NO_RETURN, impl, "crashed", out418, 2, FALSE, Len(sites) - 3)
                 EXCEPT !.calls = filtered.calls]}
        ELSE {[Outcome(SUCCESS, impl, "live", result, 0, FALSE, Len(sites))
                 EXCEPT !.calls = filtered.calls, !.convolved = convolved, !.in = in]}

\* shenidam_get_audio_range past its argument checks: convert_to_samples
\* allocates, then looks at the format; the pipeline follows.
get_range_convert(impl, input_format, samples, sample_rate, failAt, out) ==
    IF failAt = 1
    THEN {alloc_failure(get_range_sites(FALSE), 1, impl, out)}
    ELSE IF input_format \notin Formats
    THEN {Outcome(INVALID_ARGUMENT, impl, "live", out, 0, FALSE, 1)}
    ELSE get_range_pipeline(impl, input_format, samples, sample_rate, failAt, out)

\* (mutant) the check of num_samples == 0 is missing.
shenidam_get_audio_range_no_count_check(impl, input_format, samples, sample_rate, failAt, out) ==
    IF impl.base.null
    THEN {Outcome(BASE_SIGNAL_NOT_SET, impl, "live", out, 0, FALSE, 0)}
    ELSE IF sample_rate <= 0
    THEN {Outcome(INVALID_ARGUMENT, impl, "live", out, 0, FALSE, 0)}
    ELSE get_range_convert(impl, input_format, samples, sample_rate, failAt, out)

\* (mutant) the padded copy of the base is stored back into the session.
shenidam_get_audio_range_padding_in_place(impl, input_format, samples, sample_rate, failAt, out) ==
    IF impl.base.null
    THEN {Outcome(BASE_SIGNAL_NOT_SET, impl, "live", out, 0, FALSE, 0)}
    ELSE IF sample_rate <= 0
    THEN {Outcome(INVALID_ARGUMENT, impl, "live", out, 0, FALSE, 0)}
    ELSE IF Len(samples) = 0
    THEN {Outcome(INVALID_ARGUMENT, impl, "live", out, 0, FALSE, 0)}
    ELSE {IF o.ret = SUCCESS
          THEN [o EXCEPT !.impl.base =
                    Ptr(resize(impl.base.mem, impl.base_num_samples, Len(o.convolved)))]
          ELSE o :
          o \in get_range_convert(impl, input_format, samples, sample_rate, failAt, out)}

shenidam_get_audio_range(impl, input_format, samples, sample_rate, failAt, out) ==
    IF impl.base.null
    THEN {Outcome(BASE_SIGNAL_NOT_SET, impl, "live", out, 0, FALSE, 0)}
    ELSE IF sample_rate <= 0
    THEN {Outcome(INVALID_ARGUMENT, impl, "live", out, 0, FALSE, 0)}
    ELSE IF Len(samples) = 0
    THEN {Outcome(INVALID_ARGUMENT, impl, "live", out, 0, FALSE, 0)}
    ELSE get_range_convert(impl, input_format, samples, sample_rate, failAt, out)

\* -------------------------------------------------------------------- state
VARIABLES
    impl,        \* the session (shenidam_t_impl)
    status,      \* "none" before shenidam_create, then "live"; "crashed" or
                 \* "hung" once a call has brought the process down or
                 \* never returns
    call,        \* the last call: its name, arguments and return code
    out,         \* the caller's in_point and length after the last call, and
                 \* which of them the call wrote
    live,        \* buffers of the last call still allocated and unowned
    calls,       \* callback invocations of the last call, in order
    convolved,   \* the correlation the last successful query searched
    lag,         \* the lag selected in it (in, after the wraparound correction)
    caller,      \* what the caller holds for the whole run
    jb,          \* the global jmp_buf: the thread whose setjmp filled it last
                 \* (0 before any call)
    thr          \* concurrent callers of shenidam_get_audio_range

vars == << impl, status, call, out, live, calls, convolved, lag, caller, jb, thr >>

NoCall ==
    [op |-> "none", format |-> "none", samples |-> << >>, rate |-> 0,
     callback |-> NullCb, data |-> GarbageData, ret |-> "none", failed |-> FALSE]

NoCaller == [base |-> << >>, track |-> << >>]

Init ==
    /\ impl = NoImpl
    /\ status = "none"
    /\ call = NoCall
    /\ out = NoOut
    /\ live = 0
    /\ calls = << >>
    /\ convolved = << >>
    /\ lag = 0
    /\ caller = NoCaller
    /\ jb = 0
    /\ thr = << >>

\* The call, made by the one thread of a sequential caller, returns (or
\* fails to) with outcome o; every entry point starts with setjmp(jb).
Returns(o, op, format, samples, rate, callback, data) ==
    /\ impl' = o.impl
    /\ status' = o.status
    /\ out' = o.out
    /\ live' = o.live
    /\ calls' = o.calls
    /\ convolved' = o.convolved
    /\ lag' = o.in
    /\ jb' = 1
    /\ thr' = thr
    /\ call' = [op |-> op, format |-> format, samples |-> samples, rate |-> rate,
                callback |-> callback, data |-> data, ret |-> o.ret, failed |-> o.failed]
    /\ caller' = caller

\* The allocations at which a call with these outcomes (when the allocator
\* never fails) can be made to fail; 0 is no failure.
FailPoints(outcomes) ==
    0..(CHOOSE n \in 0..MaxSites :
            /\ \E o \in outcomes : o.allocs = n
            /\ \A o \in outcomes : o.allocs <= n)

Create ==
    /\ status = "none"
    /\ \E base_sample_rate \in WorkRates, num_threads \in ThreadHints,
          failAt \in 0..Len(create_sites) :
         \E o \in shenidam_create(base_sample_rate, num_threads, failAt) :
            Returns(o, "create", "none", << >>, base_sample_rate, NullCb, GarbageData)

AddFrequentialFilter ==
    /\ status = "live"
    /\ \E f \in Filters \cup {<< NullCb, "ctx_a" >>} :
         \E failAt \in FailPoints(shenidam_add_frequential_filter(impl, f[1], f[2], 0, NoOut)) :
            \E o \in shenidam_add_frequential_filter(impl, f[1], f[2], failAt, NoOut) :
               Returns(o, "add", "none", << >>, 0, f[1], f[2])

SetBaseAudio ==
    /\ status = "live"
    /\ \E format \in FormatTags, samples \in Buffers, sample_rate \in BaseRates :
         \E failAt \in FailPoints(shenidam_set_base_audio(impl, format, samples,
                                                          sample_rate, 0, NoOut)) :
            \E o \in shenidam_set_base_audio(impl, format, samples, sample_rate,
                                             failAt, NoOut) :
               Returns(o, "set", format, samples, sample_rate, NullCb, GarbageData)

GetAudioRange ==
    /\ status = "live"
    /\ \E input_format \in FormatTags, samples \in Buffers, sample_rate \in CallRates :
         \E failAt \in FailPoints(shenidam_get_audio_range(impl, input_format, samples,
                                                           sample_rate, 0, NoOut)) :
            \E o \in shenidam_get_audio_range(impl, input_format, samples, sample_rate,
                                              failAt, NoOut) :
               Returns(o, "get", input_format, samples, sample_rate, NullCb, GarbageData)

Next == Create \/ AddFrequentialFilter \/ SetBaseAudio \/ GetAudioRange

Spec == Init /\ [][Next]_vars

\* ------------------------------------------------- queries for a slice
\* The caller holds a base recording and a clip cut from it, base[start+1 ..
\* start+n] (start counts from 0 as the code's offsets do), both at one
\* sample rate.  The session has just been created with that rate as its
\* working rate, so that nothing is resampled to another rate.
SliceBases == UNION {[1..n -> Values] : n \in 1..MaxBaseLen}

InitSlice ==
    /\ \E b \in SliceBases, rate \in WorkRates :
         \E start \in 0..(Len(b) - 1) :
            \E n \in 1..(Len(b) - start) :
               caller = [base |-> b, track |-> SubSeq(b, start + 1, start + n),
                         start |-> start, rate |-> rate]
    /\ \E o \in shenidam_create(caller.rate, 0, 0) :
         /\ impl = o.impl
         /\ status = o.status
         /\ call = [NoCall EXCEPT !.op = "create", !.rate = caller.rate, !.ret = o.ret]
    /\ out = NoOut
    /\ live = 0
    /\ calls = << >>
    /\ convolved = << >>
    /\ lag = 0
    /\ jb = 1
    /\ thr = << >>

SetCallerBase ==
    /\ status = "live"
    /\ impl.base.null
    /\ \E failAt \in FailPoints(shenidam_set_base_audio(impl, "FORMAT_SINGLE", caller.base,
                                                        caller.rate, 0, NoOut)) :
         \E o \in shenidam_set_base_audio(impl, "FORMAT_SINGLE", caller.base, caller.rate,
                                          failAt, NoOut) :
            Returns(o, "set", "FORMAT_SINGLE", caller.base, caller.rate, NullCb, GarbageData)

QueryCallerTrack ==
    /\ status = "live"
    /\ \E input_format \in Formats :
         \E failAt \in FailPoints(shenidam_get_audio_range(impl, input_format, caller.track,
                                                           caller.rate, 0, NoOut)) :
            \E o \in shenidam_get_audio_range(impl, input_format, caller.track, caller.rate,
                                              failAt, NoOut) :
               Returns(o, "get", input_format, caller.track, caller.rate, NullCb, GarbageData)

NextSlice == SetCallerBase \/ QueryCallerTrack

SpecSlice == InitSlice /\ [][NextSlice]_vars

\* ------------------------------------------------------ the search alone
\* Any correlation sequence of the length shenidam_get_audio_range gives it
\* for a query of track_len and a base of base_len working samples.
CorrVals == (0 - 1)..MaxCorr

InitPeak ==
    /\ \E q \in 1..MaxQ, b \in 1..MaxB :
         /\ caller = [track_len |-> q, base_len |-> b]
         /\ convolved \in [1..get_common_size(q + b) -> CorrVals]
    /\ impl = NoImpl
    /\ status = "convolved"
    /\ call = NoCall
    /\ out = NoOut
    /\ live = 0
    /\ calls = << >>
    /\ lag = 0
    /\ jb = 0
    /\ thr = << >>

\* Lines 449-463 of shenidam_get_audio_range.
SearchPeak ==
    /\ status = "convolved"
    /\ status' = "searched"
    /\ lag' = wraparound(peak_search(convolved), Len(convolved), caller.track_len)
    /\ UNCHANGED << impl, call, out, live, calls, convolved, caller, jb, thr >>

NextPeak == SearchPeak

SpecPeak == InitPeak /\ [][NextPeak]_vars

\* --------------------------------------------------- concurrent queries
\* NumCallers threads call shenidam_get_audio_range on one session that has a
\* base, each with the same valid arguments.  A call is followed from its
\* setjmp(jb) through its allocations; what lies between two allocations
\* works on buffers private to the call.
Threads == 1..NumCallers

ReadySession ==
    LET created == CHOOSE o \in shenidam_create(1, 0, 0) : TRUE
        committed == CHOOSE o \in shenidam_set_base_audio(created.impl, "FORMAT_SINGLE",
                                     << 0, 1, 0 >>, 1, 0, NoOut) : TRUE
    IN  committed.impl

ConcTrack == << 1, 0 >>

ConcSites == get_range_sites(FALSE)

\* What the call returns when it runs alone and its allocation failAt fails.
Alone(failAt) ==
    CHOOSE o \in shenidam_get_audio_range(ReadySession, "FORMAT_SINGLE", ConcTrack, 1,
                                          failAt, NoOut) : TRUE

InitConc ==
    /\ impl = ReadySession
    /\ status = "live"
    /\ call = NoCall
    /\ out = NoOut
    /\ live = 0
    /\ calls = << >>
    /\ convolved = << >>
    /\ lag = 0
    /\ caller = [track |-> ConcTrack, rate |-> 1]
    /\ jb = 0
    /\ thr = [t \in Threads |-> [pc |-> "idle", k |-> 0, failAt |-> 0, ret |-> "none"]]

\* Thread t enters: setjmp(jb) stores its context in the one global buffer;
\* the argument checks pass.
Enter(t) ==
    /\ status = "live"
    /\ thr[t].pc = "idle"
    /\ \E failAt \in 0..Len(ConcSites) :
         thr' = [thr EXCEPT ![t] = [pc |-> "running", k |-> 0, failAt |-> failAt,
                                    ret |-> "none"]]
    /\ jb' = t
    /\ UNCHANGED << impl, status, call, out, live, calls, convolved, lag, caller >>

\* The next allocation of thread t succeeds.
Allocate(t) ==
    /\ status = "live"
    /\ thr[t].pc = "running"
    /\ thr[t].k < Len(ConcSites)
    /\ thr[t].failAt # thr[t].k + 1
    /\ thr' = [thr EXCEPT ![t].k = @ + 1]
    /\ UNCHANGED << impl, status, call, out, live, calls, convolved, lag, caller, jb >>

\* The next allocation of thread t fails.  An unchecked one is used as it is.
\* A checked one does longjmp(jb): into t's own setjmp when jb is still t's;
\* otherwise into the frame of the thread that called setjmp last, which is
\* undefined: the process dies, or (that thread still being inside its call)
\* control comes out of that thread's setjmp, so its caller is handed
\* ALLOCATION_ERROR and t's caller is handed nothing.
AllocateFails(t) ==
    /\ status = "live"
    /\ thr[t].pc = "running"
    /\ thr[t].k < Len(ConcSites)
    /\ thr[t].failAt = thr[t].k + 1
    /\ IF ConcSites[thr[t].failAt].kind = "raw"
       THEN status' = "crashed" /\ thr' = thr
       ELSE IF jb = t
       THEN /\ status' = status
            /\ thr' = [thr EXCEPT ![t].pc = "done", ![t].ret = ALLOCATION_ERROR]
       ELSE \/ status' = "crashed" /\ thr' = thr
            \/ /\ thr[jb].pc = "running"
               /\ status' = status
               /\ thr' = [thr EXCEPT ![t].pc = "lost", ![t].ret = NO_RETURN,
                                     ![jb].pc = "done", ![jb].ret = ALLOCATION_ERROR]
    /\ UNCHANGED << impl, call, out, live, calls, convolved, lag, caller, jb >>

\* Thread t has made all its allocations and returns its result.
Finish(t) ==
    /\ status = "live"
    /\ thr[t].pc = "running"
    /\ thr[t].k = Len(ConcSites)
    /\ thr' = [thr EXCEPT ![t].pc = "done", ![t].ret = Alone(0).ret]
    /\ UNCHANGED << impl, status, call, out, live, calls, convolved, lag, caller, jb >>

EnterQuery == \E t \in Threads : Enter(t)

AllocateInQuery == \E t \in Threads : Allocate(t)

AllocateFailsInQuery == \E t \in Threads : AllocateFails(t)

FinishQuery == \E t \in Threads : Finish(t)

NextConc == EnterQuery \/ AllocateInQuery \/ AllocateFailsInQuery \/ FinishQuery

SpecConc == InitConc /\ [][NextConc]_vars

\* ------------------------------------------------ properties of the session
\* The filters a query runs: the entries before the first NULL, with their
\* contexts.
RECURSIVE chain_from(_, _)
chain_from(i, k) ==
    IF k > Len(i.frequential_filters) \/ i.frequential_filters[k] = NullCb THEN << >>
    ELSE << << i.frequential_filters[k], i.frequential_filter_data[k] >> >>
         \o chain_from(i, k + 1)

Chain(i) == chain_from(i, 1)

\* The callbacks of a trace that were handed the spectrum named which.
RECURSIVE calls_on(_, _, _)
calls_on(trace, which, k) ==
    IF k > Len(trace) THEN << >>
    ELSE (IF trace[k][3] = which THEN << << trace[k][1], trace[k][2] >> >> ELSE << >>)
         \o calls_on(trace, which, k + 1)

\* C1: once a base is committed, no step changes the base buffer, its sample
\* count or its recorded original rate, and every later shenidam_set_base_audio
\* returns ALREADY_SET_BASE_SIGNAL.
C1_DoubleCommitRejected ==
    [][ (~impl.base.null) =>
          /\ impl'.base = impl.base
          /\ impl'.base_num_samples = impl.base_num_samples
          /\ impl'.base_real_sample_rate = impl.base_real_sample_rate
          /\ (call'.op = "set" => call'.ret = ALREADY_SET_BASE_SIGNAL) ]_vars

C1_Witness ==
    /\ call.op = "set"
    /\ call.ret = ALREADY_SET_BASE_SIGNAL
    /\ call.format \in Formats
    /\ call.rate > 0

\* C2: a call in which an allocation fails reports ALLOCATION_ERROR and leaves
\* the session as it was.
C2_FailureAtomicity ==
    [][ call'.failed =>
          /\ call'.ret = ALLOCATION_ERROR
          /\ impl' = impl
          /\ status' = status ]_vars

\* C3: shenidam_set_base_audio on a session without a base, given
\* sample_rate <= 0 (a supported format, no allocation failing), returns
\* INVALID_ARGUMENT and commits nothing.
C3_NonPositiveRateRejected ==
    [][ (call'.op = "set" /\ impl.base.null /\ call'.rate <= 0
         /\ call'.format \in Formats /\ ~call'.failed) =>
          /\ call'.ret = INVALID_ARGUMENT
          /\ impl' = impl ]_vars

\* C4: shenidam_get_audio_range returns BASE_SIGNAL_NOT_SET when no base is
\* committed, whatever the other arguments; with a base, INVALID_ARGUMENT when
\* sample_rate <= 0 or num_samples = 0; in these cases the session is
\* unchanged, nothing is allocated and neither in_point nor length is written.
C4_QueryPreconditions ==
    [][ call'.op = "get" =>
          /\ impl.base.null => call'.ret = BASE_SIGNAL_NOT_SET
          /\ (~impl.base.null /\ (call'.rate <= 0 \/ Len(call'.samples) = 0))
                => call'.ret = INVALID_ARGUMENT
          /\ (impl.base.null \/ call'.rate <= 0 \/ Len(call'.samples) = 0)
                => /\ impl' = impl
                   /\ out'.wrote = {}
                   /\ live' = 0
                   /\ ~call'.failed ]_vars

C4_Witness ==
    /\ call.op = "get"
    /\ ~impl.base.null
    /\ call.rate > 0
    /\ Len(call.samples) = 0
    /\ call.ret = INVALID_ARGUMENT
    /\ out.wrote = {}

\* C5: with an unrecognized format tag (the other arguments acceptable),
\* shenidam_set_base_audio and shenidam_get_audio_range return
\* INVALID_ARGUMENT, also when the allocator is exhausted, and leave no buffer
\* allocated.
C5_EagerFormatValidation ==
    [][ (/\ call'.format \notin Formats
         /\ \/ call'.op = "set" /\ impl.base.null
            \/ call'.op = "get" /\ ~impl.base.null /\ call'.rate > 0
                                /\ Len(call'.samples) > 0) =>
          /\ call'.ret = INVALID_ARGUMENT
          /\ live' = 0 ]_vars

\* C6: every registration of a callback returns SUCCESS and appends the pair
\* after the earlier ones; every successful query invokes the registered pairs
\* in order on the query spectrum and, in the same order, on the base
\* spectrum, each with its own context.
C6_FilterChainOrder ==
    [][ /\ (call'.op = "add" /\ call'.callback # NullCb /\ ~call'.failed) =>
              /\ call'.ret = SUCCESS
              /\ Chain(impl') = Append(Chain(impl), << call'.callback, call'.data >>)
        /\ (call'.op = "get" /\ call'.ret = SUCCESS) =>
              /\ calls_on(calls', "track_f", 1) = Chain(impl)
              /\ calls_on(calls', "base_f", 1) = Chain(impl) ]_vars

\* C7: a query on a session with a committed base, whatever its outcome,
\* leaves the session (base buffer, count, both rates, filters, thread hint)
\* unchanged, and a successful query repeated with the same arguments returns
\* the same in_point and length.
C7_QueryReadOnly ==
    [][ (call'.op = "get" /\ ~impl.base.null) =>
          /\ impl' = impl
          /\ (/\ call.op = "get" /\ call.ret = SUCCESS /\ call'.ret = SUCCESS
              /\ call'.format = call.format /\ call'.samples = call.samples
              /\ call'.rate = call.rate)
                => (out'.in_point = out.in_point /\ out'.length = out.length) ]_vars

C7_Witness ==
    /\ call.op = "get"
    /\ call.ret = SUCCESS
    /\ Chain(impl) # << >>
    /\ call.rate # impl.base_sample_rate
    /\ out.wrote = {"in_point", "length"}

\* C8: in any interleaving of concurrent queries on a session with a base,
\* every call returns to its own caller what it returns when run alone with
\* the same allocation failing, and the process dies only if one of the calls
\* would bring it down alone.
C8_ConcurrentQueriesSafe ==
    /\ \A t \in DOMAIN thr :
         /\ thr[t].pc # "lost"
         /\ thr[t].pc = "done" => thr[t].ret = Alone(thr[t].failAt).ret
    /\ status = "crashed" =>
         \E t \in DOMAIN thr :
            thr[t].pc = "running" /\ Alone(thr[t].failAt).status = "crashed"

\* ------------------------------------------------- properties of the result
Abs(x) == IF x < 0 THEN 0 - x ELSE x

\* The mean-centred samples (times their number).
Centred(x) == [i \in 1..Len(x) |-> Len(x) * x[i] - SumSeq(x, 1)]

\* The cross-correlation of q against b at lag k: q laid over b with q's
\* first sample on b's sample k (counted from 0).
RECURSIVE LinCorr(_, _, _, _)
LinCorr(q, b, k, j) ==
    IF j > Len(q) THEN 0
    ELSE (IF j + k >= 1 /\ j + k <= Len(b) THEN q[j] * b[j + k] ELSE 0)
         + LinCorr(q, b, k, j + 1)

\* Lag s holds the single largest value of the correlation, a positive one.
UniquePeakAt(q, b, s) ==
    /\ LinCorr(q, b, s, 1) > 0
    /\ \A k \in (1 - Len(q))..(Len(b) - 1) :
          k # s => LinCorr(q, b, k, 1) < LinCorr(q, b, s, 1)

FirstMaxIndex(c) ==
    CHOOSE i \in 0..(Len(c) - 1) :
        /\ \A j \in 0..(Len(c) - 1) : c[j + 1] <= c[i + 1]
        /\ \A j \in 0..(i - 1) : c[j + 1] < c[i + 1]

\* C10: the correlation has the smallest power of two >= query length + base
\* length entries; the lag used is the first index of its maximum, less the
\* number of entries exactly when that index exceeds it minus half the query
\* length (rounded down); a constant correlation gives lag 0.
C10_PeakSelection ==
    status = "searched" =>
        LET N == Len(convolved)
            q == caller.track_len
            peak == FirstMaxIndex(convolved)
        IN  /\ N >= q + caller.base_len
            /\ N < 2 * (q + caller.base_len)
            /\ \E e \in 0..N : N = 2 ^ e
            /\ lag = IF peak > N - (q \div 2) THEN peak - N ELSE peak
            /\ (\A i \in 1..N : convolved[i] = convolved[1]) => lag = 0

\* The correction has fired on a maximum that also had a tie to break: the
\* second largest value occurs twice before it.
C10_Witness ==
    /\ status = "searched"
    /\ lag < 0
    /\ convolved[1] = convolved[2]
    /\ convolved[1] = 0

====
